---- MODULE Spec2Model ----
(***************************************************************************)
(* Model of the CardDealerPro upload automation:                           *)
(*   scripts/image_upload_workflow.py  CardDealerProWorkflow and main()    *)
(* The batch driver (main) walks the folders of the command line; for each *)
(* it constructs a workflow, runs its thirteen steps on a browser session  *)
(* and appends one outcome record; the summary is printed in a finally     *)
(* clause and the process exits.  A KeyboardInterrupt may arrive at the    *)
(* points where the program blocks or does I/O.                            *)
(*   tools/web_automation_tools.py  ElementWaiter, LoginHandler,           *)
(*   FormSubmitter                                                         *)
(* One call of a browser helper is a second state machine (SpecTools): the *)
(* browser answers each operation of the call with success or with one of  *)
(* the exceptions it can raise.                                            *)
(***************************************************************************)
EXTENDS Integers, Sequences, FiniteSets, TLC

\* ---------------------------------------------------------------- bounds
MaxFolders == 3

\* ------------------------------------------------------------- constants
\* the declared step order of CardDealerProWorkflow.run
StepOrder ==
  << "Rotate Images", "Login", "Navigate", "Fill General Settings",
     "Continue General", "Fill Optional Details", "Create Batch Submit",
     "Extract Batch ID", "Magic Scan", "Select Sides", "Upload Images",
     "Upload Continue", "Inspector View" >>

NumSteps == Len(StepOrder)

\* Python's None for a driver handle, and for an error text
NoDriver == 0
None == << >>

\* What each step function can hand back to run(): "True", "False", or
\* "exc" (an Exception propagates).  Read off the body of each step:
\*  _rotate_images catches every Exception and returns False;
\*  _login passes continue_button_selector= to LoginHandler.login, which has
\*    no such parameter, so the call raises TypeError (and _login raises
\*    ValueError when the credentials are missing);
\*  navigate_to, fill/select and click_button return True or raise;
\*  _fill_optional_details and _select_sides swallow every Exception;
\*  _extract_batch_id returns False when no id is found;
\*  _upload_images and _click_continue_upload turn every Exception into False;
\*  _reach_inspector_view only sleeps and prints.
StepOutcomes(s) ==
  CASE s = "Rotate Images"         -> {"True", "False"}
    [] s = "Login"                 -> {"exc"}
    [] s = "Navigate"              -> {"True", "exc"}
    [] s = "Fill General Settings" -> {"True", "exc"}
    [] s = "Continue General"      -> {"True", "exc"}
    [] s = "Fill Optional Details" -> {"True"}
    [] s = "Create Batch Submit"   -> {"True", "exc"}
    [] s = "Extract Batch ID"      -> {"True", "False", "exc"}
    [] s = "Magic Scan"            -> {"True", "exc"}
    [] s = "Select Sides"          -> {"True"}
    [] s = "Upload Images"         -> {"True", "False"}
    [] s = "Upload Continue"       -> {"True", "False"}
    [] s = "Inspector View"        -> {"True"}

\* exceptions CardDealerProWorkflow.__init__ raises (config file or folder
\* missing; invalid document, missing keys, not a directory)
CtorErrors == {"FileNotFoundError", "ValueError"}

\* how _setup_driver ends when it has to create the browser
SetupOutcomes == {"ok", "fail", "fail_after_create"}

\* how the input() prompt of _cleanup ends
InputOutcomes == {"enter", "EOFError", "KeyboardInterrupt"}

\* ------------------------------------------------------------------ state
VARIABLES
  total_folders,  \* len(args.folder)
  idx,            \* loop index of main, 1-based
  pc,             \* position of the single control thread
  workflow,       \* the CardDealerProWorkflow of this iteration
  stepi,          \* index in StepOrder of the step run() is at
  ret,            \* value run() is about to return / has returned
  shared_driver,  \* main's shared_driver
  results,        \* main's results list
  nsessions,      \* browsers created so far (handles 1..nsessions)
  quitted,        \* handles on which driver.quit() was called
  authed,         \* handles on which a login completed
  term,           \* how the for loop of main ended
  sigint,         \* a KeyboardInterrupt was delivered
  report,         \* rows of the summary table
  exitcode,       \* argument of sys.exit
  fn,             \* the browser helper being called ("none": no call)
  arg,            \* its argument (max_retries, the wait primitive, ...)
  attempt,        \* the loop variable "attempt" of the helper
  pos,            \* position in the operation sequence of the attempt
  log,            \* browser operations performed: << attempt, operation >>
  fails,          \* the exceptions that ended the attempts so far
  outcome,        \* << "running" >>, << "returned", v >>, << "raised", e >>
  disk,           \* the image folder: path -> content of the file
  stats,          \* the counters (and result lists) of the image pipeline
  ready,          \* rotated_image_paths / rotated_paths
  sent            \* what send_keys handed to the file input, call by call

mainVars == << total_folders, idx, pc, workflow, stepi, ret, shared_driver,
               results, nsessions, quitted, authed, term, sigint, report,
               exitcode >>

imgVars == << disk, stats, ready, sent >>

toolVars == << fn, arg, attempt, pos, log, fails, outcome, imgVars >>

vars == << mainVars, toolVars >>

Running == << "running" >>
Returned(v) == << "returned", v >>
Raised(e) == << "raised", e >>

\* no helper call is modelled while the batch driver runs
ToolsIdle ==
  /\ fn = "none"
  /\ arg = 0
  /\ attempt = 0
  /\ pos = 0
  /\ log = << >>
  /\ fails = << >>
  /\ outcome = Running
  /\ disk = << >>
  /\ stats = << >>
  /\ ready = << >>
  /\ sent = << >>

\* workflow = None
NoWorkflow ==
  [ exists |-> FALSE, driver |-> NoDriver, skip_login |-> FALSE,
    waiter |-> FALSE, step_timings |-> << >>, current_step |-> "Init",
    last_error |-> None, executed |-> << >>, succeeded |-> << >>,
    created |-> {}, interrupted |-> FALSE, config |-> None ]

\* the fields __init__ sets before it loads the configuration (executed,
\* succeeded, created and interrupted are history: the steps entered, the steps that returned True, the
\* browsers this workflow created, a KeyboardInterrupt caught by run)
NewWorkflow(drv, skip) ==
  [ exists |-> TRUE, driver |-> drv, skip_login |-> skip,
    waiter |-> FALSE, step_timings |-> << >>, current_step |-> "Init",
    last_error |-> None, executed |-> << >>, succeeded |-> << >>,
    created |-> {}, interrupted |-> FALSE, config |-> None ]

\* the configuration document on disk: the image folder and the batch name
\* it gives (0: the values written in the file; folders are 1, 2, ...)
ConfigDocument == [ image_folder |-> 0, batch_name |-> 0 ]

\* _load_config: self.config = json.load(f)
LoadConfig(w) == [w EXCEPT !.config = ConfigDocument]

\* __init__, "if self.folder_path": config['image_folder'] becomes the
\* resolved folder and config['general_settings']['batch_name'] its name
OverrideFolder(w, i) ==
  [w EXCEPT !.config = [ image_folder |-> i, batch_name |-> i ]]

\* main: idx == 1 builds the workflow without shared driver, any later
\* index passes shared_driver and skip_login=True
SkipLoginFor(i) == i # 1

DriverFor(i, shared) == IF i = 1 THEN NoDriver ELSE shared

\* a driver that lets every run close its browser
KeepOpen_Never(i, n) == FALSE

\* main: keep_open = idx < total_folders
KeepOpen(i, n) == i < n

\* a run() whose Login block is skipped whatever skip_login says
NextStep_AlwaysSkipsLogin(i, skip) ==
  IF i + 1 <= NumSteps /\ StepOrder[i + 1] = "Login" THEN i + 2 ELSE i + 1

\* run(): the step that follows position i; the Login block is guarded by
\* "if not self.skip_login"
NextStep(i, skip) ==
  IF i + 1 <= NumSteps /\ StepOrder[i + 1] = "Login" /\ skip
  THEN i + 2 ELSE i + 1

\* the steps run() declares for a workflow
DeclaredSteps(skip) ==
  SelectSeq(StepOrder, LAMBDA s : ~(s = "Login" /\ skip))

IsPrefix(a, b) == Len(a) <= Len(b) /\ SubSeq(b, 1, Len(a)) = a

Init ==
  /\ total_folders \in 1..MaxFolders
  /\ idx = 1
  /\ pc = "construct"
  /\ workflow = NoWorkflow
  /\ stepi = 1
  /\ ret = "none"
  /\ shared_driver = NoDriver
  /\ results = << >>
  /\ nsessions = 0
  /\ quitted = {}
  /\ authed = {}
  /\ term = "running"
  /\ sigint = FALSE
  /\ report = << >>
  /\ exitcode = -1
  /\ ToolsIdle

\* ------------------------------------------- CardDealerProWorkflow steps
\* _rotate_images: sets current_step; records its timing only on the path
\* that returns True; every path that returns False sets last_error
RotateImages(w, o) ==
  LET w1 == [w EXCEPT !.current_step = "Rotate Images",
                      !.executed = Append(@, "Rotate Images")]
  IN IF o = "True"
     THEN [w1 EXCEPT !.step_timings = Append(@, "Rotate Images"),
                     !.succeeded = Append(@, "Rotate Images")]
     ELSE [w1 EXCEPT !.last_error = << "Rotate Images", "failed" >>]

\* _track_step_time: sets current_step, runs the step, records the elapsed
\* time whether the step returns or raises; on an Exception sets last_error
TrackStepTime(w, s, o) ==
  LET w1 == [w EXCEPT !.current_step = s,
                      !.executed = Append(@, s),
                      !.step_timings = Append(@, s)]
  IN CASE o = "True" -> [w1 EXCEPT !.succeeded = Append(@, s)]
       [] o = "False" -> w1
       [] o = "exc" -> [w1 EXCEPT !.last_error = << s, "error" >>]

\* run(): "if not self.last_error: self.last_error = '<step> returned False'"
OnStepFalse(w, s) ==
  IF w.last_error = None
  THEN [w EXCEPT !.last_error = << s, "returned False" >>] ELSE w

\* run(): "except Exception as e: if not self.last_error: ... = str(e)"
OnException(w, e) ==
  IF w.last_error = None THEN [w EXCEPT !.last_error = << e >>] ELSE w

\* a run() that goes on after a step returned False
StepVerdict_IgnoresFalse(o) == IF o = "exc" THEN "False" ELSE "continue"

\* run(): what a step's outcome makes of the pipeline: go on to the next
\* step, or leave with the value to return
StepVerdict(o) == IF o = "True" THEN "continue" ELSE "False"

\* ------------------------------------------------------ main: the records
SuccessRecord(i) ==
  [ folder |-> i, status |-> "success", step |-> "Complete", error |-> None ]

FailedRecord(i, w) ==
  [ folder |-> i, status |-> "failed", step |-> w.current_step,
    error |-> w.last_error ]

\* "except Exception as e" of the loop body: getattr(workflow, ..., default)
ErrorRecord(i, w, e) ==
  [ folder |-> i, status |-> "error",
    step |-> IF w.exists THEN w.current_step ELSE "Unknown",
    error |-> IF w.exists THEN w.last_error ELSE << e >> ]

\* the summary: failed counts every row whose status is not success
Failed(rs) == Cardinality({ k \in 1..Len(rs) : rs[k].status # "success" })

ExitStatus(rs) == IF Failed(rs) = 0 THEN 0 ELSE 1

\* a driver that leaves the loop once a job has failed
AfterIteration_StopsOnFailure ==
  IF idx < total_folders /\ ret # "False"
  THEN pc' = "pause" /\ term' = term
  ELSE pc' = "summary" /\ term' = "normal"

\* end of a loop iteration: pause before the next folder, or leave the loop
AfterIteration ==
  IF idx < total_folders
  THEN pc' = "pause" /\ term' = term
  ELSE pc' = "summary" /\ term' = "normal"

\* ---------------------------------------------------------------- actions
\* main: workflow = CardDealerProWorkflow(...) returns
Construct ==
  /\ pc = "construct"
  /\ workflow' =
       OverrideFolder(
         LoadConfig(NewWorkflow(DriverFor(idx, shared_driver),
                                SkipLoginFor(idx))), idx)
  /\ pc' = "setup"
  /\ ret' = "none"
  /\ UNCHANGED toolVars
  /\ UNCHANGED << total_folders, idx, stepi, shared_driver, results,
                  nsessions, quitted, authed, term, sigint, report,
                  exitcode >>

\* main: the constructor raises, workflow stays None; the handler appends
\* the error record and then evaluates "idx == 1 and workflow.driver", which
\* for idx == 1 raises AttributeError out of the handler into the outer
\* "except Exception"
ConstructRaises ==
  /\ pc = "construct"
  /\ \E e \in CtorErrors :
       results' = Append(results, ErrorRecord(idx, NoWorkflow, e))
  /\ workflow' = NoWorkflow
  /\ ret' = "none"
  /\ IF idx = 1
     THEN pc' = "summary" /\ term' = "fatal"
     ELSE AfterIteration
  /\ UNCHANGED toolVars
  /\ UNCHANGED << total_folders, idx, stepi, shared_driver, nsessions,
                  quitted, authed, sigint, report, exitcode >>

\* run(): _setup_driver with a driver handed in
SetupShared ==
  /\ pc = "setup"
  /\ workflow.driver # NoDriver
  /\ workflow' = [workflow EXCEPT !.waiter = TRUE]
  /\ pc' = "steps"
  /\ stepi' = 1
  /\ UNCHANGED toolVars
  /\ UNCHANGED << total_folders, idx, ret, shared_driver, results,
                  nsessions, quitted, authed, term, sigint, report,
                  exitcode >>

\* run(): _setup_driver creates the browser; it may raise before or after
\* self.driver is assigned
SetupNew ==
  /\ pc = "setup"
  /\ workflow.driver = NoDriver
  /\ \E o \in SetupOutcomes :
       CASE o = "ok" ->
              /\ nsessions' = nsessions + 1
              /\ workflow' = [workflow EXCEPT !.driver = nsessions + 1,
                                              !.waiter = TRUE,
                                              !.created = @ \cup {nsessions + 1}]
              /\ pc' = "steps" /\ stepi' = 1 /\ ret' = ret
         [] o = "fail" ->
              /\ nsessions' = nsessions
              /\ workflow' = OnException(workflow, "WebDriverException")
              /\ pc' = "finally" /\ stepi' = stepi /\ ret' = "False"
         [] o = "fail_after_create" ->
              /\ nsessions' = nsessions + 1
              /\ workflow' = OnException(
                   [workflow EXCEPT !.driver = nsessions + 1,
                                    !.created = @ \cup {nsessions + 1}],
                   "WebDriverException")
              /\ pc' = "finally" /\ stepi' = stepi /\ ret' = "False"
  /\ UNCHANGED toolVars
  /\ UNCHANGED << total_folders, idx, shared_driver, results, quitted,
                  authed, term, sigint, report, exitcode >>

\* run(): one step of the pipeline
Step ==
  /\ pc = "steps"
  /\ LET s == StepOrder[stepi] IN
     \E o \in StepOutcomes(s) :
       LET w1 == IF s = "Rotate Images" THEN RotateImages(workflow, o)
                 ELSE TrackStepTime(workflow, s, o)
           v == StepVerdict(o)
       IN /\ authed' = IF s = "Login" /\ o = "True"
                       THEN authed \cup {workflow.driver} ELSE authed
          /\ IF v = "continue"
             THEN /\ workflow' = w1
                  /\ stepi' = NextStep(stepi, workflow.skip_login)
                  /\ pc' = IF stepi' > NumSteps THEN "finish" ELSE "steps"
                  /\ ret' = ret
             ELSE /\ workflow' = IF o = "exc" THEN OnException(w1, "step")
                                 ELSE OnStepFalse(w1, s)
                  /\ stepi' = stepi
                  /\ pc' = "finally"
                  /\ ret' = v
  /\ UNCHANGED toolVars
  /\ UNCHANGED << total_folders, idx, shared_driver, results, nsessions,
                  quitted, term, sigint, report, exitcode >>

\* run(): _print_summary(); return True
Finish ==
  /\ pc = "finish"
  /\ ret' = "True"
  /\ pc' = "finally"
  /\ UNCHANGED toolVars
  /\ UNCHANGED << total_folders, idx, workflow, stepi, shared_driver,
                  results, nsessions, quitted, authed, term, sigint, report,
                  exitcode >>

\* run(): "except KeyboardInterrupt: return False"; an interrupt inside a
\* step arrives after current_step was set and before the timing is recorded
InterruptRun ==
  /\ pc \in {"setup", "steps", "finish"}
  /\ workflow' =
       IF pc = "steps"
       THEN [workflow EXCEPT !.current_step = StepOrder[stepi],
                             !.executed = Append(@, StepOrder[stepi]),
                             !.interrupted = TRUE]
       ELSE [workflow EXCEPT !.interrupted = TRUE]
  /\ sigint' = TRUE
  /\ ret' = "False"
  /\ pc' = "finally"
  /\ UNCHANGED toolVars
  /\ UNCHANGED << total_folders, idx, stepi, shared_driver, results,
                  nsessions, quitted, authed, term, report, exitcode >>

\* run(): the finally clause when the browser is kept for the next folder,
\* or when _cleanup finds no driver: run() returns
FinallyKeep ==
  /\ pc = "finally"
  /\ KeepOpen(idx, total_folders) \/ workflow.driver = NoDriver
  /\ pc' = "record"
  /\ UNCHANGED toolVars
  /\ UNCHANGED << total_folders, idx, workflow, stepi, ret, shared_driver,
                  results, nsessions, quitted, authed, term, sigint, report,
                  exitcode >>

\* run(): the finally clause calls _cleanup(): input(), then driver.quit().
\* An exception out of input() leaves the finally clause in place of the
\* return value: an Exception reaches the handler of the loop body, a
\* KeyboardInterrupt the handler around the loop
Cleanup ==
  /\ pc = "finally"
  /\ ~KeepOpen(idx, total_folders)
  /\ workflow.driver # NoDriver
  /\ \E o \in InputOutcomes :
       CASE o = "enter" ->
              /\ quitted' = quitted \cup {workflow.driver}
              /\ pc' = "record" /\ ret' = ret
              /\ term' = term /\ sigint' = sigint
         [] o = "EOFError" ->
              /\ quitted' = quitted
              /\ pc' = "record" /\ ret' = "raised"
              /\ term' = term /\ sigint' = sigint
         [] o = "KeyboardInterrupt" ->
              /\ quitted' = quitted
              /\ pc' = "summary" /\ ret' = "raised"
              /\ term' = "interrupt" /\ sigint' = TRUE
  /\ UNCHANGED toolVars
  /\ UNCHANGED << total_folders, idx, workflow, stepi, shared_driver,
                  results, nsessions, authed, report, exitcode >>

\* main: what shared_driver is after run() returned (line "if idx == 1")
\* or raised (the handler's "if idx == 1 and workflow.driver")
SharedAfterRun(i, w, shared, r) ==
  IF r = "raised"
  THEN IF i = 1 /\ w.driver # NoDriver THEN w.driver ELSE shared
  ELSE IF i = 1 THEN w.driver ELSE shared

\* main: the record appended for what run() did
OutcomeRecord(i, w, r) ==
  CASE r = "True" -> SuccessRecord(i)
    [] r = "False" -> FailedRecord(i, w)
    [] r = "raised" -> ErrorRecord(i, w, "EOFError")

\* main: after run(): save the driver, append the outcome record
Record ==
  /\ pc = "record"
  /\ shared_driver' = SharedAfterRun(idx, workflow, shared_driver, ret)
  /\ results' = Append(results, OutcomeRecord(idx, workflow, ret))
  /\ AfterIteration
  /\ UNCHANGED toolVars
  /\ UNCHANGED << total_folders, idx, workflow, stepi, ret, nsessions,
                  quitted, authed, sigint, report, exitcode >>

\* main: time.sleep(3), then the next iteration (workflow = None)
Pause ==
  /\ pc = "pause"
  /\ idx' = idx + 1
  /\ workflow' = NoWorkflow
  /\ ret' = "none"
  /\ pc' = "construct"
  /\ UNCHANGED toolVars
  /\ UNCHANGED << total_folders, stepi, shared_driver, results, nsessions,
                  quitted, authed, term, sigint, report, exitcode >>

\* main: "except KeyboardInterrupt" around the loop: an interrupt while the
\* constructor runs or during the pause between folders
InterruptMain ==
  /\ pc \in {"construct", "pause"}
  /\ sigint' = TRUE
  /\ term' = "interrupt"
  /\ pc' = "summary"
  /\ UNCHANGED toolVars
  /\ UNCHANGED << total_folders, idx, workflow, stepi, ret, shared_driver,
                  results, nsessions, quitted, authed, report, exitcode >>

\* main: the finally clause: the summary table, then sys.exit
Summary ==
  /\ pc = "summary"
  /\ report' = results
  /\ exitcode' = ExitStatus(results)
  /\ pc' = "done"
  /\ UNCHANGED toolVars
  /\ UNCHANGED << total_folders, idx, workflow, stepi, ret, shared_driver,
                  results, nsessions, quitted, authed, term, sigint >>

Next ==
  \/ Construct
  \/ ConstructRaises
  \/ SetupShared
  \/ SetupNew
  \/ Step
  \/ Finish
  \/ InterruptRun
  \/ FinallyKeep
  \/ Cleanup
  \/ Record
  \/ Pause
  \/ InterruptMain
  \/ Summary

Spec == Init /\ [][Next]_vars

TypeOK ==
  /\ total_folders \in 1..MaxFolders
  /\ idx \in 1..total_folders
  /\ pc \in {"construct", "setup", "steps", "finish", "finally", "record",
             "pause", "summary", "done"}
  /\ stepi \in 1..NumSteps + 1
  /\ ret \in {"none", "True", "False", "raised"}
  /\ shared_driver \in 0..nsessions
  /\ workflow.driver \in 0..nsessions
  /\ quitted \subseteq 1..nsessions
  /\ authed \subseteq 1..nsessions
  /\ term \in {"running", "normal", "interrupt", "fatal"}
  /\ exitcode \in {-1, 0, 1}

\* ================================================================ claims
\* the rows of a list of records are those of folders 1..n, in that order
InOrder(rs, n) == Len(rs) = n /\ \A k \in 1..n : rs[k].folder = k

\* run() is inside its pipeline (between _setup_driver and the return)
InPipeline == pc \in {"steps", "finish"}

\* C1: in run(), the steps entered (executed) are a prefix of the declared
\* order, Login being left out exactly when skip_login is set; the steps
\* recorded in step_timings are a prefix of the steps entered; and once a
\* step has not reported success (it returned False or raised) run() is out
\* of the pipeline, so that no later step is entered or recorded.
C1_StepsArePrefixOfDeclaredOrder ==
  /\ IsPrefix(workflow.executed, DeclaredSteps(workflow.skip_login))
  /\ IsPrefix(workflow.step_timings, workflow.executed)
  /\ IsPrefix(workflow.succeeded, workflow.executed)
  /\ Len(workflow.executed) <= Len(workflow.succeeded) + 1
  /\ (Len(workflow.executed) > Len(workflow.succeeded) => ~InPipeline)

\* a job that failed at a step after several steps had succeeded
C1_Witness ==
  /\ pc = "finally"
  /\ ret = "False"
  /\ ~workflow.interrupted
  /\ Len(workflow.succeeded) >= 3
  /\ Len(workflow.executed) = Len(workflow.succeeded) + 1

C3_FailedJobThenNextFolder ==
  [][ /\ (pc = "finally" /\ ret = "False" /\ idx < total_folders
            => pc' = "record" /\ ret' = "False" /\ results' = results)
      /\ (pc = "record" /\ ret = "False" /\ idx < total_folders
            => /\ pc' = "pause"
               /\ term' = "running"
               /\ idx' = idx
               /\ Len(results') = Len(results) + 1
               /\ SubSeq(results', 1, Len(results)) = results
               /\ results'[Len(results')].folder = idx
               /\ results'[Len(results')].status = "failed")
      /\ (pc = "pause"
            => \/ pc' = "construct" /\ idx' = idx + 1 /\ results' = results
               \/ pc' = "summary" /\ term' = "interrupt") ]_vars

\* the job after a failed one is being constructed
C3_Witness ==
  /\ pc = "construct"
  /\ idx > 1
  /\ results[idx - 1].status = "failed"
  /\ results[idx - 1].step = "Login"

\* C4: when the driver is not interrupted, the final report holds exactly
\* one record for every folder of the command line, in command-line order.
C4_OneRecordPerFolder ==
  (pc = "done" /\ ~sigint) => InOrder(report, total_folders)

\* C5: when the driver was interrupted or hit a fatal error, the report was
\* emitted and holds one record for every folder whose processing had
\* started (folders 1..idx), the one in progress included, and every record
\* collected.
C5_ReportCoversStartedFolders ==
  (pc = "done" /\ term \in {"interrupt", "fatal"}) =>
    report = results /\ InOrder(report, idx)

\* C6: the exit status is 0 only if every folder of the command line ended
\* with status success.
C6_ExitZeroOnlyIfAllSucceeded ==
  (pc = "done" /\ exitcode = 0) =>
    /\ Len(report) = total_folders
    /\ \A k \in 1..Len(report) : report[k].status = "success"

\* C7: a job that skips login and has entered Navigate runs on a session
\* that completed a login before.
C7_SkippedLoginOnAuthenticatedSession ==
  (workflow.skip_login /\ Len(workflow.executed) >= 2) =>
    workflow.driver \in authed

\* C8: every job after the first runs with skip_login on the session the
\* driver shares (shared_driver, a browser that exists), never enters or
\* records Login, and an uninterrupted multi-folder run that got past its
\* first folder reports every folder.
C8_LaterJobsSkipLoginOnSharedSession ==
  /\ (workflow.exists /\ idx > 1 =>
        /\ workflow.skip_login
        /\ \A k \in 1..Len(workflow.executed) : workflow.executed[k] # "Login"
        /\ \A k \in 1..Len(workflow.step_timings) :
             workflow.step_timings[k] # "Login"
        /\ (InPipeline =>
              workflow.driver = shared_driver /\ shared_driver # NoDriver))
  /\ (pc = "done" /\ ~sigint /\ idx > 1 => InOrder(report, total_folders))

\* C9: at most one session is ever created, by the first job; every later
\* job creates none and uses that one.
C9_AtMostOneSession ==
  /\ nsessions <= 1
  /\ (workflow.exists /\ idx > 1 => workflow.created = {})
  /\ (workflow.exists /\ idx > 1 /\ InPipeline => workflow.driver = 1)

\* C10: when the driver has terminated, every session created during the
\* run has been quit.
C10_SessionsReleasedAtExit ==
  pc = "done" => quitted = 1..nsessions

\* the names a record's step field can take: a declared step, or the
\* placeholders of a job that entered no step ("Init", "Unknown")
StepNames == { StepOrder[k] : k \in 1..NumSteps }

\* C11: once a KeyboardInterrupt has been delivered, no further folder is
\* started: the loop index never advances again.
C11_NoFolderAfterInterrupt ==
  [][ sigint => idx' = idx ]_vars

\* C12: every record whose status is not success names the step that failed
\* (for a job that entered no step, the placeholder the code has) and
\* carries an error text that is not None.
C12_FailureRecordsCarryStepAndError ==
  \A k \in 1..Len(results) :
    results[k].status # "success" =>
      /\ results[k].step \in StepNames \cup {"Init", "Unknown"}
      /\ results[k].error # None

\* C13: when run() has left the pipeline without an interrupt, every step
\* entered has an entry in step_timings, and after a failure current_step
\* is the failed step and last_error is set.
C13_EveryExecutedStepIsTimed ==
  (pc \in {"finally", "record"} /\ ~workflow.interrupted) =>
    /\ workflow.step_timings = workflow.executed
    /\ (Len(workflow.executed) > Len(workflow.succeeded) =>
          /\ workflow.current_step = workflow.executed[Len(workflow.executed)]
          /\ workflow.last_error # None)

\* =================================================== the browser helpers
\* the batch driver is not running while one helper call is examined
MainParked ==
  /\ total_folders = 1
  /\ idx = 1
  /\ pc = "parked"
  /\ workflow = NoWorkflow
  /\ stepi = 1
  /\ ret = "none"
  /\ shared_driver = NoDriver
  /\ results = << >>
  /\ nsessions = 0
  /\ quitted = {}
  /\ authed = {}
  /\ term = "running"
  /\ sigint = FALSE
  /\ report = << >>
  /\ exitcode = -1

\* the operations of the attempt a, in the order they were performed
OpsOf(a) ==
  LET la == SelectSeq(log, LAMBDA e : e[1] = a)
  IN [ j \in 1..Len(la) |-> la[j][2] ]

\* ------------------------------------------------------ LoginHandler.login
MAX_LOGIN_RETRIES == 3

\* one attempt: driver.get, then wait/clear+send_keys for the two fields,
\* wait for the button, click, wait for the success url
LoginOps ==
  << "get", "wait_username", "fill_username", "wait_password",
     "fill_password", "wait_login_button", "click", "wait_url" >>

\* an operation succeeds, or raises TimeoutException, or another Exception
LoginOpOutcomes == {"ok", "TimeoutException", "Exception"}

\* a retry that goes on where the failed attempt stopped
LoginRestartPos_Resumes(p) == p

\* "continue" in both handlers: the next attempt runs the loop body from
\* its first statement, driver.get(login_url)
LoginRestartPos(p) == 1

\* "for attempt in range(1, MAX_LOGIN_RETRIES + 1)"
LoginHasNextAttempt(a) == a < MAX_LOGIN_RETRIES

\* one browser operation of the current attempt
LoginOp ==
  /\ fn = "login"
  /\ outcome = Running
  /\ log' = Append(log, << attempt, LoginOps[pos] >>)
  /\ \E o \in LoginOpOutcomes :
       IF o = "ok"
       THEN /\ fails' = fails /\ attempt' = attempt
            /\ IF pos = Len(LoginOps)
               THEN pos' = pos /\ outcome' = Returned("True")
               ELSE pos' = pos + 1 /\ outcome' = outcome
       ELSE /\ fails' = Append(fails, o)
            /\ IF LoginHasNextAttempt(attempt)
               THEN /\ attempt' = attempt + 1
                    /\ pos' = LoginRestartPos(pos)
                    /\ outcome' = outcome
               ELSE /\ attempt' = attempt /\ pos' = pos
                    /\ outcome' = Raised("Login failed after maximum retries")
  /\ UNCHANGED << fn, arg >>
  /\ UNCHANGED imgVars
  /\ UNCHANGED mainVars

\* ------------------------------------------------ FormSubmitter.click_button
\* largest max_retries a call is examined with (the default is 3)
MaxClickRetries == 3

\* one attempt: wait_for_element_clickable, scrollIntoView, element.click
ClickOps == << "wait_clickable", "scroll", "click" >>

\* what the browser can answer to each operation
ClickOpOutcomes(op) ==
  CASE op = "wait_clickable" ->
         {"ok", "TimeoutException", "StaleElementReferenceException",
          "WebDriverException"}
    [] op = "scroll" ->
         {"ok", "StaleElementReferenceException", "WebDriverException"}
    [] op = "click" ->
         {"ok", "StaleElementReferenceException",
          "ElementClickInterceptedException", "WebDriverException"}

\* the two conditions click_button has a retrying handler for
Retriable ==
  {"StaleElementReferenceException", "ElementClickInterceptedException"}

\* a click_button that tries once more after the last attempt
ClickRetries_OneTooMany(e, a, n) == e \in Retriable /\ a <= n

\* a click_button that retries whatever was raised
ClickRetries_Anything(e, a, n) == a < n

\* a click_button that also retries a timeout of the wait
ClickRetries_AlsoTimeout(e, a, n) ==
  e \in Retriable \cup {"TimeoutException"} /\ a < n

\* the handlers: stale and intercepted "continue" while attempt <
\* max_retries and re-raise otherwise; "except Exception" re-raises
ClickRetries(e, a, n) == e \in Retriable /\ a < n

\* "for attempt in range(1, max_retries + 1)" with max_retries < 1: the
\* body never runs, "return False"
ClickNoAttempt ==
  /\ fn = "click_button"
  /\ outcome = Running
  /\ arg < 1
  /\ outcome' = Returned("False")
  /\ UNCHANGED << fn, arg, attempt, pos, log, fails >>
  /\ UNCHANGED imgVars
  /\ UNCHANGED mainVars

\* one browser operation of the current attempt
ClickOp ==
  /\ fn = "click_button"
  /\ outcome = Running
  /\ arg >= 1
  /\ log' = Append(log, << attempt, ClickOps[pos] >>)
  /\ \E o \in ClickOpOutcomes(ClickOps[pos]) :
       IF o = "ok"
       THEN /\ fails' = fails /\ attempt' = attempt
            /\ IF pos = Len(ClickOps)
               THEN pos' = pos /\ outcome' = Returned("True")
               ELSE pos' = pos + 1 /\ outcome' = outcome
       ELSE /\ fails' = Append(fails, o)
            /\ IF ClickRetries(o, attempt, arg)
               THEN attempt' = attempt + 1 /\ pos' = 1 /\ outcome' = outcome
               ELSE attempt' = attempt /\ pos' = pos /\ outcome' = Raised(o)
  /\ UNCHANGED << fn, arg >>
  /\ UNCHANGED imgVars
  /\ UNCHANGED mainVars

\* ------------------------------------------- a wait inside a pipeline step
\* the steps that call a wait primitive themselves (not through
\* click_button, not in LoginHandler.login): navigate_to, fill_text_input,
\* select_dropdown_option and upload_files wait for visibility, the three
\* click steps and _select_sides wait for the URL, _click_continue_upload
\* waits on the waiter's WebDriverWait
WaitSteps ==
  { k \in 1..NumSteps :
      StepOrder[k] \in {"Navigate", "Fill General Settings",
                        "Continue General", "Fill Optional Details",
                        "Create Batch Submit", "Magic Scan", "Select Sides",
                        "Upload Images", "Upload Continue"} }

\* a pipeline in which _upload_images also swallows the timeout
StepOnTimeout_UploadSwallows(s) ==
  CASE s \in {"Navigate", "Fill General Settings", "Continue General",
              "Create Batch Submit", "Magic Scan"} -> "exc"
    [] s \in {"Upload Continue"} -> "False"
    [] s \in {"Fill Optional Details", "Select Sides", "Upload Images"}
         -> "True"

\* what the step function hands back to run() when that wait raises
\* TimeoutException: no handler or "except Exception: raise" lets it out;
\* _upload_images and _click_continue_upload "return False";
\* _fill_optional_details and _select_sides print a warning and return True
StepOnTimeout(s) ==
  CASE s \in {"Navigate", "Fill General Settings", "Continue General",
              "Create Batch Submit", "Magic Scan"} -> "exc"
    [] s \in {"Upload Images", "Upload Continue"} -> "False"
    [] s \in {"Fill Optional Details", "Select Sides"} -> "True"

\* a step outcome as the outcome of the call
StepCallOutcome(r, e) == IF r = "exc" THEN Raised(e) ELSE Returned(r)

\* the outcome of the call as run() sees it
StepResult(oc) == IF oc[1] = "raised" THEN "exc" ELSE oc[2]

\* the step's wait, then the rest of the step
StepWait ==
  /\ fn = "step"
  /\ outcome = Running
  /\ log' = Append(log, << attempt, "wait" >>)
  /\ LET s == StepOrder[arg] IN
     \/ /\ fails' = fails
        /\ \E r \in StepOutcomes(s) :
             outcome' = StepCallOutcome(r, "Exception")
     \/ /\ fails' = Append(fails, "TimeoutException")
        /\ outcome' = StepCallOutcome(StepOnTimeout(s), "TimeoutException")
  /\ UNCHANGED << fn, arg, attempt, pos >>
  /\ UNCHANGED imgVars
  /\ UNCHANGED mainVars

\* ------------------------------------------------------------ ElementWaiter
WaitPrimitives ==
  << "wait_for_element_visible", "wait_for_element_clickable",
     "wait_for_url_contains", "wait_for_url_matches",
     "wait_for_element_stale" >>

\* "return element" for the two element waits, "return True" for the others
WaitOnSuccess(p) ==
  IF p \in {"wait_for_element_visible", "wait_for_element_clickable"}
  THEN Returned("element") ELSE Returned("True")

\* a wait layer in which every primitive answers a timeout with False
WaitOnTimeout_ReturnsFalse(p) == Returned("False")

\* the "except TimeoutException" of each primitive: print and "raise", but
\* wait_for_element_stale prints and "return False"
WaitOnTimeout(p) ==
  IF p = "wait_for_element_stale"
  THEN Returned("False") ELSE Raised("TimeoutException")

\* the one self.wait.until(...) of a primitive
WaitUntil ==
  /\ fn = "wait"
  /\ outcome = Running
  /\ log' = Append(log, << attempt, "until" >>)
  /\ LET p == WaitPrimitives[arg] IN
     \/ fails' = fails /\ outcome' = WaitOnSuccess(p)
     \/ /\ fails' = Append(fails, "TimeoutException")
        /\ outcome' = WaitOnTimeout(p)
  /\ UNCHANGED << fn, arg, attempt, pos >>
  /\ UNCHANGED imgVars
  /\ UNCHANGED mainVars

\* ------------------------------------ FormSubmitter.select_dropdown_option
SelectOps ==
  << "wait_visible", "Select", "select_by_visible_text", "select_by_value" >>

SelectOpOutcomes(op) ==
  CASE op = "wait_visible" -> {"ok", "TimeoutException"}
    [] op = "Select" -> {"ok", "UnexpectedTagNameException"}
    [] op = "select_by_visible_text" ->
         {"ok", "NoSuchElementException", "StaleElementReferenceException"}
    [] op = "select_by_value" ->
         {"ok", "NoSuchElementException", "StaleElementReferenceException"}

\* a select_dropdown_option that tries the value after any failure
SelectFallsBack_Always(op, e) == op # "select_by_value"

\* "except NoSuchElementException:" is the only way to select_by_value, and
\* inside the try block only select_by_visible_text raises it
SelectFallsBack(op, e) ==
  op = "select_by_visible_text" /\ e = "NoSuchElementException"

SelectOp ==
  /\ fn = "select_dropdown_option"
  /\ outcome = Running
  /\ log' = Append(log, << attempt, SelectOps[pos] >>)
  /\ \E o \in SelectOpOutcomes(SelectOps[pos]) :
       IF o = "ok"
       THEN /\ fails' = fails
            /\ IF SelectOps[pos] \in {"select_by_visible_text",
                                      "select_by_value"}
               THEN pos' = pos /\ outcome' = Returned("True")
               ELSE pos' = pos + 1 /\ outcome' = outcome
       ELSE /\ fails' = Append(fails, o)
            /\ IF SelectFallsBack(SelectOps[pos], o)
               THEN pos' = 4 /\ outcome' = outcome
               ELSE pos' = pos /\ outcome' = Raised(o)
  /\ UNCHANGED << fn, arg, attempt >>
  /\ UNCHANGED imgVars
  /\ UNCHANGED mainVars

\* ------------------------------------------------- _fill_general_settings
\* the methods class FormSubmitter defines
FormSubmitterMethods ==
  {"fill_text_input", "select_dropdown_option", "upload_files",
   "click_button"}

\* the controls of the General Settings form, in the order filled
GeneralFields ==
  << "batch_name_input", "batch_type_select", "sport_type_select",
     "title_template_select", "description_template_select",
     "description_input" >>

\* the dropdowns that can carry a "<selector>_type" marker
GeneralDropdowns == 2..5

\* the method _fill_general_settings calls for control k when the dropdown
\* numbered custom is marked 'custom' (0: none is)
GeneralMethod(k, custom) ==
  IF k \notin GeneralDropdowns THEN "fill_text_input"
  ELSE IF k = custom THEN "select_custom_dropdown_option"
  ELSE "select_dropdown_option"

\* what the browser can answer to a helper that exists
GeneralOpOutcomes == {"ok", "TimeoutException"}

\* one control of the form: the attribute lookup on the submitter, then the
\* helper; "except Exception as e: ... raise" lets every exception out
FillGeneralOp ==
  /\ fn = "fill_general_settings"
  /\ outcome = Running
  /\ LET m == GeneralMethod(pos, arg) IN
     /\ log' = Append(log, << attempt, m >>)
     /\ IF m \notin FormSubmitterMethods
        THEN /\ fails' = Append(fails, "AttributeError")
             /\ outcome' = Raised("AttributeError")
             /\ pos' = pos
        ELSE \E o \in GeneralOpOutcomes :
               IF o = "ok"
               THEN /\ fails' = fails
                    /\ IF pos = Len(GeneralFields)
                       THEN pos' = pos /\ outcome' = Returned("True")
                       ELSE pos' = pos + 1 /\ outcome' = outcome
               ELSE /\ fails' = Append(fails, o)
                    /\ pos' = pos
                    /\ outcome' = Raised(o)
  /\ UNCHANGED << fn, arg, attempt >>
  /\ UNCHANGED imgVars
  /\ UNCHANGED mainVars

\* --------------------------------- FormNavigator.extract_batch_id_from_url
\* longest path, in segments, of a URL examined
MaxUrlSegs == 4

\* path segments of the current URL; each is preceded by "/" in the URL
UrlSegments == {"batches", "add", "address", "42", ""}

\* the segments that begin with "add"
StartsWithAdd == {"add", "address"}

Urls == UNION { [1..n -> UrlSegments] : n \in 3..MaxUrlSegs }

\* BATCH_ID_REGEX = r'/batches/([^/]+)/add' matched at segment i: the
\* segment "batches", one non-empty segment, a segment beginning with "add"
MatchAt(u, i) ==
  /\ i + 2 <= Len(u)
  /\ u[i] = "batches"
  /\ u[i + 1] # ""
  /\ u[i + 2] \in StartsWithAdd

\* re.search: the leftmost match; group(1), or "None" for no match
RegexSearch(u) ==
  IF \E i \in 1..Len(u) : MatchAt(u, i)
  THEN LET i == CHOOSE i \in 1..Len(u) :
                  /\ MatchAt(u, i)
                  /\ \A j \in 1..(i - 1) : ~MatchAt(u, j)
       IN u[i + 1]
  ELSE "None"

BATCH_ID_FALLBACK_SELECTORS ==
  << "input[name=\"batch_id\"]", "[data-batch-id]", ".batch-info [data-id]",
     "#batch_id" >>

\* what the element found by selector k can hold as value and as text
DomValues(k) == {"", "value" \o ToString(k)}
DomTexts(k) == {"", "text" \o ToString(k)}

\* an extraction that reads only the element's text
ValueOrText_TextOnly(val, txt) == txt

\* element.get_attribute('value') or element.text
ValueOrText(val, txt) == IF val # "" THEN val ELSE txt

\* what one find_element has met
Absent == << "NoSuchElementException", "", "" >>
Broken == << "WebDriverException", "", "" >>
Found(val, txt) == << "found", val, txt >>

\* the regex on driver.current_url
ExtractRegex ==
  /\ fn = "extract_batch_id_from_url"
  /\ outcome = Running
  /\ pos = 1
  /\ log' = Append(log, << attempt, "re.search" >>)
  /\ IF RegexSearch(arg) # "None"
     THEN pos' = pos /\ outcome' = Returned(RegexSearch(arg))
     ELSE pos' = 2 /\ outcome' = outcome
  /\ UNCHANGED << fn, arg, attempt, fails >>
  /\ UNCHANGED imgVars
  /\ UNCHANGED mainVars

\* one turn of "for selector in BATCH_ID_FALLBACK_SELECTORS"
ExtractFallback ==
  /\ fn = "extract_batch_id_from_url"
  /\ outcome = Running
  /\ pos > 1
  /\ LET k == pos - 1
         last == k = Len(BATCH_ID_FALLBACK_SELECTORS)
     IN /\ log' = Append(log, << attempt, BATCH_ID_FALLBACK_SELECTORS[k] >>)
        /\ \/ /\ fails' = Append(fails, Absent)
              /\ IF last THEN pos' = pos /\ outcome' = Returned("None")
                         ELSE pos' = pos + 1 /\ outcome' = outcome
           \/ /\ fails' = Append(fails, Broken)
              /\ pos' = pos
              /\ outcome' = Raised("WebDriverException")
           \/ \E val \in DomValues(k), txt \in DomTexts(k) :
                /\ fails' = Append(fails, Found(val, txt))
                /\ IF ValueOrText(val, txt) # ""
                   THEN pos' = pos /\ outcome' = Returned(ValueOrText(val, txt))
                   ELSE IF last
                        THEN pos' = pos /\ outcome' = Returned("None")
                        ELSE pos' = pos + 1 /\ outcome' = outcome
  /\ UNCHANGED << fn, arg, attempt >>
  /\ UNCHANGED imgVars
  /\ UNCHANGED mainVars

\* _extract_batch_id: "if self.batch_id: return True, else: return False"
ExtractBatchIdStep(oc) ==
  IF oc[1] = "raised" THEN "exc"
  ELSE IF oc[2] \notin {"None", ""} THEN "True" ELSE "False"

\* ------------------------------------------------------- the image folder
\* most entries of a folder examined
MaxFiles == 3

\* names of folder entries, character by character
FileNames ==
  << << "f","r","o","n","t",".","j","p","g" >>,
     << "F","R","O","N","T",".","P","N","G" >>,
     << "b","a","c","k",".","j","p","e","g" >>,
     << "B","a","c","k",".","w","e","b","p" >>,
     << "f","r","o","n","t","b","a","c","k",".","J","P","G" >>,
     << "c","a","r","d",".","t","i","f" >>,
     << "c","a","r","d",".","p","n","g" >>,
     << "b","a","c","k",".","p","n","g" >> >>

\* the entries that are directories (f.is_file() is False)
Directories == {8}

\* a folder: it exists or not, and what iterdir() yields, in its order
Folders ==
  { [exists |-> FALSE, entries |-> << >>] } \cup
  { [exists |-> TRUE, entries |-> e] :
      e \in { q \in UNION { [1..n -> 1..Len(FileNames)] : n \in 0..MaxFiles } :
                \A i, j \in 1..Len(q) : i # j => q[i] # q[j] } }

\* str.lower() on the letters that occur
UpperToLower ==
  ("F" :> "f") @@ ("R" :> "r") @@ ("O" :> "o") @@ ("N" :> "n") @@
  ("T" :> "t") @@ ("B" :> "b") @@ ("P" :> "p") @@ ("G" :> "g") @@
  ("J" :> "j")

Lower(s) ==
  [ i \in 1..Len(s) |->
      IF s[i] \in DOMAIN UpperToLower THEN UpperToLower[s[i]] ELSE s[i] ]

\* Python's "sub in s"
Contains(s, sub) ==
  \E i \in 0..(Len(s) - Len(sub)) : SubSeq(s, i + 1, i + Len(sub)) = sub

\* Path.suffix: from the last dot on, empty without a dot after the first
\* character
Suffix(s) ==
  LET dots == { i \in 2..Len(s) : s[i] = "." } IN
  IF dots = {} THEN << >>
  ELSE LET d == CHOOSE i \in dots : \A j \in dots : j <= i
       IN SubSeq(s, d, Len(s))

\* supported_formats of _rotate_images and of scripts/rotate_images.py
InlineFormats ==
  { << ".","j","p","g" >>, << ".","j","p","e","g" >>, << ".","p","n","g" >>,
    << ".","t","i","f","f" >>, << ".","t","i","f" >>, << ".","b","m","p" >> }

\* [f for f in folder.iterdir() if f.is_file() and f.suffix.lower() in ...]
ImageFiles(folder, formats) ==
  SelectSeq(folder.entries,
            LAMBDA k : k \notin Directories
                       /\ Lower(Suffix(FileNames[k])) \in formats)

\* str(f) of an entry and of its namesake in the rotated_images subfolder
SrcPath(k) == "folder/" \o ToString(k)
RotPath(k) == "folder/rotated_images/" \o ToString(k)

Original == << "original", 0 >>
WithExif(o) == << "exif", o >>
Rotated(o) == << "rotated", o >>

\* the files of the folder before the pipeline runs
InitialDisk(folder) ==
  [ p \in { SrcPath(folder.entries[i]) : i \in 1..Len(folder.entries) }
      |-> Original ]

\* a rotation in which a name with "back" is a back, whatever else it holds
TargetOrientation_BackFirst(name) ==
  IF Contains(Lower(name), << "b","a","c","k" >>) THEN 6
  ELSE IF Contains(Lower(name), << "f","r","o","n","t" >>) THEN 8
  ELSE 0

\* "if 'front' in filename_lower: 8, elif 'back' in filename_lower: 6,
\* else: skipped" (0: no orientation is assigned)
TargetOrientation(name) ==
  IF Contains(Lower(name), << "f","r","o","n","t" >>) THEN 8
  ELSE IF Contains(Lower(name), << "b","a","c","k" >>) THEN 6
  ELSE 0

ZeroStats == [front |-> 0, back |-> 0, skipped |-> 0, errors |-> 0]

\* a loop that gives up the remaining files at the first error
AfterFileError_Abort(i, n) == n + 1

\* "except Exception as e: ... stats['errors'] += 1": on to the next file
AfterFileError(i, n) == i + 1

\* a count that leaves out the files without a role
Classified_SkippedUncounted(st, o) ==
  CASE o = 8 -> [st EXCEPT !.front = @ + 1]
    [] o = 6 -> [st EXCEPT !.back = @ + 1]
    [] OTHER -> st

\* the counters after the classification of a file
Classified(st, o) ==
  CASE o = 8 -> [st EXCEPT !.front = @ + 1]
    [] o = 6 -> [st EXCEPT !.back = @ + 1]
    [] OTHER -> [st EXCEPT !.skipped = @ + 1]

\* -------------------------------------- CardDealerProWorkflow._rotate_images
\* up to the loop: the folder test, the enumeration, the empty test
RotateEnumerate ==
  /\ fn = "_rotate_images"
  /\ outcome = Running
  /\ pos = 0
  /\ IF ~arg.exists
     THEN /\ fails' = Append(fails, "Image folder not found")
          /\ outcome' = Returned("False")
          /\ UNCHANGED << pos, stats >>
     ELSE IF ImageFiles(arg, InlineFormats) = << >>
     THEN /\ fails' = Append(fails, "No image files found")
          /\ outcome' = Returned("False")
          /\ UNCHANGED << pos, stats >>
     ELSE /\ stats' = ZeroStats
          /\ pos' = 1
          /\ UNCHANGED << fails, outcome >>
  /\ UNCHANGED << fn, arg, attempt, log, disk, ready >>
  /\ UNCHANGED sent
  /\ UNCHANGED mainVars

\* one turn of "for image_file in image_files"
RotateFile ==
  /\ fn = "_rotate_images"
  /\ outcome = Running
  /\ pos \in 1..Len(ImageFiles(arg, InlineFormats))
  /\ LET files == ImageFiles(arg, InlineFormats)
         k == files[pos]
         o == TargetOrientation(FileNames[k])
     IN IF o = 0
        THEN /\ log' = Append(log, << k, o, "skipped" >>)
             /\ stats' = Classified(stats, o)
             /\ pos' = pos + 1
             /\ UNCHANGED disk
        ELSE \/ /\ log' = Append(log, << k, o, "saved" >>)
                /\ stats' = Classified(stats, o)
                /\ disk' = [disk EXCEPT ![SrcPath(k)] = WithExif(o)]
                /\ pos' = pos + 1
             \/ /\ log' = Append(log, << k, o, "error" >>)
                /\ stats' = [Classified(stats, o) EXCEPT !.errors = @ + 1]
                /\ pos' = AfterFileError(pos, Len(files))
                /\ UNCHANGED disk
  /\ UNCHANGED << fn, arg, attempt, fails, outcome, ready >>
  /\ UNCHANGED sent
  /\ UNCHANGED mainVars

\* after the loop: rotated_image_paths, the timing, "return True"
RotateDone ==
  /\ fn = "_rotate_images"
  /\ outcome = Running
  /\ pos > Len(ImageFiles(arg, InlineFormats))
  /\ ready' = [ i \in 1..Len(ImageFiles(arg, InlineFormats)) |->
                  SrcPath(ImageFiles(arg, InlineFormats)[i]) ]
  /\ outcome' = Returned("True")
  /\ UNCHANGED << fn, arg, attempt, pos, log, fails, disk, stats >>
  /\ UNCHANGED sent
  /\ UNCHANGED mainVars

\* --------------------------------------- scripts/rotate_images.rotate_images
ZeroTotals ==
  [total |-> 0, front |-> 0, back |-> 0, skipped |-> 0, errors |-> 0]

\* a pipeline that answers a missing folder with an empty result
OnMissingFolder_EmptyResult(f) == Returned("result")

\* "raise FileNotFoundError(...)" in rotate_images,
\* "raise ValueError(...)" in ImageRotationHandler.__init__
OnMissingFolder(f) ==
  IF f = "rotate_images" THEN Raised("FileNotFoundError")
  ELSE Raised("ValueError")

\* up to the loop: the folder test, the enumeration, the empty test
StandaloneEnumerate ==
  /\ fn = "rotate_images"
  /\ outcome = Running
  /\ pos = 0
  /\ IF ~arg.exists
     THEN /\ outcome' = OnMissingFolder(fn)
          /\ UNCHANGED << pos, stats >>
     ELSE IF ImageFiles(arg, InlineFormats) = << >>
     THEN /\ stats' = ZeroTotals
          /\ outcome' = Returned("result")
          /\ UNCHANGED pos
     ELSE /\ stats' = [ZeroTotals EXCEPT
                         !.total = Len(ImageFiles(arg, InlineFormats))]
          /\ pos' = 1
          /\ UNCHANGED outcome
  /\ UNCHANGED << fn, arg, attempt, log, fails, disk, ready >>
  /\ UNCHANGED sent
  /\ UNCHANGED mainVars

\* one turn of the loop; set_exif_orientation returns True, or False after
\* any Exception
StandaloneFile ==
  /\ fn = "rotate_images"
  /\ outcome = Running
  /\ pos \in 1..Len(ImageFiles(arg, InlineFormats))
  /\ LET files == ImageFiles(arg, InlineFormats)
         k == files[pos]
         o == TargetOrientation(FileNames[k])
     IN /\ pos' = pos + 1
        /\ IF o = 0
           THEN /\ log' = Append(log, << k, o, "skipped" >>)
                /\ stats' = Classified(stats, o)
                /\ UNCHANGED disk
           ELSE \/ /\ log' = Append(log, << k, o, "saved" >>)
                   /\ stats' = Classified(stats, o)
                   /\ disk' = [disk EXCEPT ![SrcPath(k)] = WithExif(o)]
                \/ /\ log' = Append(log, << k, o, "error" >>)
                   /\ stats' = [Classified(stats, o) EXCEPT !.errors = @ + 1]
                   /\ UNCHANGED disk
  /\ UNCHANGED << fn, arg, attempt, fails, outcome, ready >>
  /\ UNCHANGED sent
  /\ UNCHANGED mainVars

\* "return stats"
StandaloneDone ==
  /\ fn = "rotate_images"
  /\ outcome = Running
  /\ pos > Len(ImageFiles(arg, InlineFormats))
  /\ outcome' = Returned("result")
  /\ UNCHANGED << fn, arg, attempt, pos, log, fails, disk, stats, ready >>
  /\ UNCHANGED sent
  /\ UNCHANGED mainVars

\* ------------------------------------------------------ ImageRotationHandler
\* IMAGE_SUPPORTED_FORMATS of config.py
IMAGE_SUPPORTED_FORMATS ==
  { << ".","j","p","g" >>, << ".","j","p","e","g" >>, << ".","p","n","g" >>,
    << ".","w","e","b","p" >>, << ".","h","e","i","c" >> }

\* _is_jpeg
IsJpeg(name) ==
  Lower(Suffix(name)) \in { << ".","j","p","g" >>, << ".","j","p","e","g" >> }

\* the EXIF orientations a file is examined with
ExifOrientations == {1, 6}

\* the result lists that are not rotated_paths, and the summary
NoLists == [failed |-> << >>, skipped |-> << >>, summary |-> << >>]

\* __init__: the folder must exist
HandlerInit ==
  /\ fn = "ImageRotationHandler"
  /\ outcome = Running
  /\ attempt = 1
  /\ IF ~arg.exists
     THEN outcome' = OnMissingFolder(fn) /\ UNCHANGED attempt
     ELSE attempt' = 2 /\ UNCHANGED outcome
  /\ UNCHANGED << fn, arg, pos, log, fails, disk, stats, ready >>
  /\ UNCHANGED sent
  /\ UNCHANGED mainVars

\* rotate_images(): the three lists, the enumeration, the empty test
HandlerEnumerate ==
  /\ fn = "ImageRotationHandler"
  /\ outcome = Running
  /\ attempt = 2
  /\ pos = 0
  /\ IF ImageFiles(arg, IMAGE_SUPPORTED_FORMATS) = << >>
     THEN /\ stats' = [NoLists EXCEPT !.summary =
                         [total |-> 0, success |-> 0, failed |-> 0,
                          skipped |-> 0]]
          /\ outcome' = Returned("result")
          /\ UNCHANGED pos
     ELSE /\ stats' = NoLists
          /\ pos' = 1
          /\ UNCHANGED outcome
  /\ UNCHANGED << fn, arg, attempt, log, fails, disk, ready >>
  /\ UNCHANGED sent
  /\ UNCHANGED mainVars

\* a handler that rotates every file where it lies
OutputPath_InPlace(k) == SrcPath(k)

\* "output_path = self.rotated_folder / img_path.name" for a JPEG,
\* img_path itself otherwise
OutputPath(k) == IF IsJpeg(FileNames[k]) THEN RotPath(k) ELSE SrcPath(k)

\* one turn of "for img_path in image_files": the file cannot be opened or
\* processed (failed), its orientation is 1 (skipped), or it is rotated and
\* saved (the save, taken as all or nothing, can fail as well)
HandlerFile ==
  /\ fn = "ImageRotationHandler"
  /\ outcome = Running
  /\ attempt = 2
  /\ pos \in 1..Len(ImageFiles(arg, IMAGE_SUPPORTED_FORMATS))
  /\ LET k == ImageFiles(arg, IMAGE_SUPPORTED_FORMATS)[pos] IN
     /\ pos' = pos + 1
     /\ \/ /\ log' = Append(log, << k, 0 >>)
           /\ stats' = [stats EXCEPT !.failed = Append(@, SrcPath(k))]
           /\ UNCHANGED << disk, ready >>
        \/ \E o \in ExifOrientations :
             /\ log' = Append(log, << k, o >>)
             /\ IF o = 1
                THEN /\ stats' = [stats EXCEPT
                                    !.skipped = Append(@, SrcPath(k))]
                     /\ UNCHANGED << disk, ready >>
                ELSE \/ /\ disk' = (OutputPath(k) :> Rotated(o)) @@ disk
                        /\ ready' = Append(ready, OutputPath(k))
                        /\ UNCHANGED stats
                     \/ /\ stats' = [stats EXCEPT
                                       !.failed = Append(@, SrcPath(k))]
                        /\ UNCHANGED << disk, ready >>
  /\ UNCHANGED << fn, arg, attempt, fails, outcome >>
  /\ UNCHANGED sent
  /\ UNCHANGED mainVars

\* the summary and the result
HandlerDone ==
  /\ fn = "ImageRotationHandler"
  /\ outcome = Running
  /\ attempt = 2
  /\ pos > Len(ImageFiles(arg, IMAGE_SUPPORTED_FORMATS))
  /\ stats' = [stats EXCEPT !.summary =
                 [total |-> Len(ImageFiles(arg, IMAGE_SUPPORTED_FORMATS)),
                  success |-> Len(ready),
                  failed |-> Len(stats.failed),
                  skipped |-> Len(stats.skipped)]]
  /\ outcome' = Returned("result")
  /\ UNCHANGED << fn, arg, attempt, pos, log, fails, disk, ready >>
  /\ UNCHANGED sent
  /\ UNCHANGED mainVars

\* ------------------------------------- _upload_images after _rotate_images
\* an upload that hands over the first path only
JoinLines_FirstOnly(p) == IF p = << >> THEN << >> ELSE << p[1] >>

\* "\n".join(file_paths): the paths with a newline between neighbours
JoinLines(p) ==
  [ i \in 1..(IF p = << >> THEN 0 ELSE 2 * Len(p) - 1) |->
      IF i % 2 = 1 THEN p[(i + 1) \div 2] ELSE "\n" ]

\* _upload_images with the list _rotate_images left: upload_files waits for
\* the file input and sends the joined paths in one send_keys; every
\* Exception makes the step return False
UploadImages ==
  /\ fn = "_rotate_images"
  /\ outcome = Returned("True")
  /\ attempt = 1
  /\ attempt' = 2
  /\ IF ready = << >>
     THEN outcome' = Returned("False") /\ UNCHANGED sent
     ELSE \/ outcome' = Returned("False") /\ UNCHANGED sent
          \/ /\ sent' = Append(sent, JoinLines(ready))
             /\ outcome' \in {Returned("True"), Returned("False")}
  /\ UNCHANGED << fn, arg, pos, log, fails, disk, stats, ready >>
  /\ UNCHANGED mainVars

\* ---------------------------------------------------- _fill_optional_details
\* most optional fields with a configured selector
MaxOptionalFields == 2

\* the configurations examined: per field, whether its selector is marked
\* 'custom'
OptionalConfigs == UNION { [1..n -> BOOLEAN] : n \in 1..MaxOptionalFields }

\* the first strategy for a field
FirstStrategy(custom) ==
  IF custom THEN "select_custom_dropdown_option" ELSE "fill_text_input"

\* try: select_dropdown_option; except Exception: select_dropdown_option;
\* except Exception: click_button.  Python enters the first except clause
\* that matches, so the second clause, with the click, is never entered
SecondHandler == "select_dropdown_option"

\* one strategy on the current field (attempt: the field, pos: 1 first
\* strategy, 2 native select, 3 the handler of the native select).  An
\* exception raised inside that handler leaves the for loop and is caught by
\* the outer "except Exception", which returns True
OptionalStrategy ==
  /\ fn = "_fill_optional_details"
  /\ outcome = Running
  /\ LET m == CASE pos = 1 -> FirstStrategy(arg[attempt])
                [] pos = 2 -> "select_dropdown_option"
                [] pos = 3 -> SecondHandler
         last == attempt = Len(arg)
         raises == /\ fails' = Append(fails, << attempt, m >>)
                   /\ IF pos < 3
                      THEN /\ pos' = pos + 1
                           /\ UNCHANGED << attempt, outcome >>
                      ELSE /\ outcome' = Returned("True")
                           /\ UNCHANGED << attempt, pos >>
         passes == /\ fails' = fails
                   /\ IF last
                      THEN /\ outcome' = Returned("True")
                           /\ UNCHANGED << attempt, pos >>
                      ELSE /\ attempt' = attempt + 1
                           /\ pos' = 1
                           /\ UNCHANGED outcome
     IN /\ log' = Append(log, << attempt, m >>)
        /\ IF m \notin FormSubmitterMethods THEN raises
           ELSE raises \/ passes
  /\ UNCHANGED << fn, arg >>
  /\ UNCHANGED imgVars
  /\ UNCHANGED mainVars

\* ------------------------------------------- console text and credentials
\* the two values of the dotfile ("": the variable is not set)
UserValue == "alice@example.com"
SecretValue == "s3cret"

\* what the caller hands to LoginHandler.login
LoginArgs ==
  [ login_url |-> "https://site/login", username |-> UserValue,
    password |-> SecretValue, success_url_pattern |-> "/inventory" ]

\* the values login() interpolates into the console lines it prints before
\* and after a successful operation of attempt a (the literal text of a
\* line is left out: a line is the set of values formatted into it)
LoginPrintsOnOp(a, op) ==
  CASE op = "get" -> { ToString(a), LoginArgs.login_url }
    [] op = "wait_url" -> { LoginArgs.success_url_pattern, "current_url" }
    [] OTHER -> {}

\* the values printed when an operation raises: the waiter prints the
\* selector or fragment and the current url, login() the attempt number or
\* str(e), the text the browser attached to the exception
LoginPrintsOnError(a, e) ==
  IF e = "TimeoutException"
  THEN { ToString(a), "selector", "current_url" }
  ELSE { "exception text" }

\* every value the call of login() has formatted into the console so far
LoginConsole ==
  UNION { LoginPrintsOnOp(log[j][1], log[j][2]) : j \in 1..Len(log) }
    \cup UNION { LoginPrintsOnError(j, fails[j]) : j \in 1..Len(fails) }

\* ------------------------------------- tests/test_login_navigation.py
\* the environments the script is started in
Environments ==
  [ CDP_USERNAME : {"", UserValue}, CDP_PASSWORD : {"", SecretValue} ]

\* "Get credentials": os.getenv twice; a missing value ends the script with
\* False, otherwise the script prints "Credentials loaded (username: ...)"
\* (log: the values formatted into each console line)
TestLoadCredentials ==
  /\ fn = "test_login_navigation"
  /\ outcome = Running
  /\ pos = 1
  /\ IF arg.CDP_USERNAME = "" \/ arg.CDP_PASSWORD = ""
     THEN /\ log' = Append(log, {})
          /\ outcome' = Returned("False")
          /\ pos' = pos
     ELSE /\ log' = Append(log, { arg.CDP_USERNAME })
          /\ outcome' = outcome
          /\ pos' = 2
  /\ UNCHANGED << fn, arg, attempt, fails >>
  /\ UNCHANGED imgVars
  /\ UNCHANGED mainVars

\* "Test Login": the browser is set up and login_handler.login is called;
\* it returns True, or raises and the script's handler prints str(e)
TestLoginCall ==
  /\ fn = "test_login_navigation"
  /\ outcome = Running
  /\ pos = 2
  /\ \E r \in {"True", "raised"} :
       IF r = "True"
       THEN /\ log' = Append(log, {})
            /\ fails' = fails
            /\ pos' = 3
            /\ outcome' = outcome
       ELSE /\ log' = Append(log, { "exception text" })
            /\ fails' = Append(fails, "Exception")
            /\ pos' = pos
            /\ outcome' = Returned("False")
  /\ UNCHANGED << fn, arg, attempt >>
  /\ UNCHANGED imgVars
  /\ UNCHANGED mainVars

\* "Test Navigation" and "Verify Create Batch Button": the script prints
\* the url it navigates to, the current url or the text of the exception
TestNavigate ==
  /\ fn = "test_login_navigation"
  /\ outcome = Running
  /\ pos = 3
  /\ \E r \in {"True", "False", "raised"} :
       /\ log' = Append(log, IF r = "raised" THEN { "exception text" }
                             ELSE { "url", "current_url" })
       /\ fails' = IF r = "raised" THEN Append(fails, "Exception") ELSE fails
       /\ outcome' = Returned(IF r = "True" THEN "True" ELSE "False")
  /\ UNCHANGED << fn, arg, attempt, pos >>
  /\ UNCHANGED imgVars
  /\ UNCHANGED mainVars

\* ------------------------------------ ImageRotationHandler._apply_rotation
\* largest width and height of the images examined
MaxSide == 3

\* an image is its rows of pixels, top row first
Height(img) == Len(img)
Width(img) == Len(img[1])

\* the upright pictures examined: h rows of w pixels, all different
Picture(h, w) == [ y \in 1..h |-> [ x \in 1..w |-> (y - 1) * w + x ] ]
Pictures == { Picture(h, w) : h \in 1..MaxSide, w \in 1..MaxSide }

\* the orientation codes of the docstring of _read_exif_orientation
Orientations == 1..8

\* the pixel array a camera stores for the upright picture u under
\* orientation code o (EXIF: which side of the picture row 0 and column 0
\* of the array are: 1 top/left, 2 top/right, 3 bottom/right, 4 bottom/left,
\* 5 left/top, 6 right/top, 7 right/bottom, 8 left/bottom)
StoredAs(u, o) ==
  LET h == Height(u)  w == Width(u) IN
  CASE o = 1 -> u
    [] o = 2 -> [ r \in 1..h |-> [ c \in 1..w |-> u[r][w + 1 - c] ] ]
    [] o = 3 -> [ r \in 1..h |-> [ c \in 1..w |-> u[h + 1 - r][w + 1 - c] ] ]
    [] o = 4 -> [ r \in 1..h |-> [ c \in 1..w |-> u[h + 1 - r][c] ] ]
    [] o = 5 -> [ r \in 1..w |-> [ c \in 1..h |-> u[c][r] ] ]
    [] o = 6 -> [ r \in 1..w |-> [ c \in 1..h |-> u[c][w + 1 - r] ] ]
    [] o = 7 -> [ r \in 1..w |-> [ c \in 1..h |-> u[h + 1 - c][w + 1 - r] ] ]
    [] o = 8 -> [ r \in 1..w |-> [ c \in 1..h |-> u[h + 1 - c][r] ] ]

\* Image.transpose(method): Pillow's ROTATE_90 and ROTATE_270 turn the
\* image counter-clockwise by that angle
Transpose(img, method) ==
  LET h == Height(img)  w == Width(img) IN
  CASE method = "FLIP_LEFT_RIGHT" ->
         [ y \in 1..h |-> [ x \in 1..w |-> img[y][w + 1 - x] ] ]
    [] method = "FLIP_TOP_BOTTOM" ->
         [ y \in 1..h |-> [ x \in 1..w |-> img[h + 1 - y][x] ] ]
    [] method = "ROTATE_180" ->
         [ y \in 1..h |-> [ x \in 1..w |-> img[h + 1 - y][w + 1 - x] ] ]
    [] method = "ROTATE_90" ->
         [ y \in 1..w |-> [ x \in 1..h |-> img[x][w + 1 - y] ] ]
    [] method = "ROTATE_270" ->
         [ y \in 1..w |-> [ x \in 1..h |-> img[h + 1 - x][y] ] ]
    [] method = "TRANSPOSE" ->
         [ y \in 1..w |-> [ x \in 1..h |-> img[x][y] ] ]
    [] method = "TRANSVERSE" ->
         [ y \in 1..w |-> [ x \in 1..h |-> img[h + 1 - x][w + 1 - y] ] ]

\* a table in which codes 6 and 8 have changed places
OrientationTransforms_Swapped(o) ==
  CASE o = 2 -> "FLIP_LEFT_RIGHT"
    [] o = 3 -> "ROTATE_180"
    [] o = 4 -> "FLIP_TOP_BOTTOM"
    [] o = 5 -> "TRANSPOSE"
    [] o = 6 -> "ROTATE_90"
    [] o = 7 -> "TRANSVERSE"
    [] o = 8 -> "ROTATE_270"
    [] OTHER -> "None"

\* orientation_transforms.get(orientation)
OrientationTransforms(o) ==
  CASE o = 2 -> "FLIP_LEFT_RIGHT"
    [] o = 3 -> "ROTATE_180"
    [] o = 4 -> "FLIP_TOP_BOTTOM"
    [] o = 5 -> "TRANSPOSE"
    [] o = 6 -> "ROTATE_270"
    [] o = 7 -> "TRANSVERSE"
    [] o = 8 -> "ROTATE_90"
    [] OTHER -> "None"

\* _apply_rotation(image, orientation)
ApplyRotationTo(img, o) ==
  IF OrientationTransforms(o) # "None"
  THEN Transpose(img, OrientationTransforms(o)) ELSE img

\* one call: arg holds the upright picture, the orientation code and the
\* array stored under that code, which is the image handed in; the image
\* returned is kept under "returned"
ApplyRotation ==
  /\ fn = "_apply_rotation"
  /\ outcome = Running
  /\ disk' = [ p \in {"returned"} |-> ApplyRotationTo(arg.image, arg.orientation) ]
  /\ log' = Append(log, << 1, OrientationTransforms(arg.orientation) >>)
  /\ outcome' = Returned("image")
  /\ UNCHANGED << fn, arg, attempt, pos, fails, stats, ready, sent >>
  /\ UNCHANGED mainVars

\* ------------------------------------------------------------ _select_sides
\* what the configuration holds for the step: the selectors
\* scan_card_type_radio, scan_sides_option (the tile) and scan_sides_select,
\* whether scan_sides_select_type is 'custom', and scan_options.sides
SidesConfigs ==
  [ radio : BOOLEAN, tile : BOOLEAN, select : BOOLEAN, custom : BOOLEAN,
    value : BOOLEAN ]

\* the FormSubmitter method of the dropdown path
SidesDropdownMethod(c) ==
  IF c.custom THEN "select_custom_dropdown_option"
  ELSE "select_dropdown_option"

\* "if sides_option_selector: ... else:": the dropdown path belongs to the
\* else branch, it is taken only when no tile selector is configured
SidesDropdownTried(c) == ~c.tile /\ c.select /\ c.value

\* one call of a FormSubmitter method inside "try: ... except Exception":
\* the call is logged, an exception is recorded and swallowed
SidesCall(m) ==
  /\ log' = Append(log, << pos, m >>)
  /\ \E o \in IF m \in FormSubmitterMethods THEN {"ok", "Exception"}
              ELSE {"AttributeError"} :
       fails' = IF o = "ok" THEN fails ELSE Append(fails, << pos, m >>)

\* 11.a: the card type radio, when configured
SidesCardType ==
  /\ fn = "_select_sides"
  /\ outcome = Running
  /\ pos = 1
  /\ IF arg.radio THEN SidesCall("click_button")
     ELSE UNCHANGED << log, fails >>
  /\ pos' = 2
  /\ UNCHANGED << fn, arg, attempt, outcome >>
  /\ UNCHANGED imgVars
  /\ UNCHANGED mainVars

\* 11.b: the tile when its selector is configured, else the dropdown
SidesChoice ==
  /\ fn = "_select_sides"
  /\ outcome = Running
  /\ pos = 2
  /\ IF arg.tile
     THEN SidesCall("click_button")
     ELSE IF SidesDropdownTried(arg)
          THEN SidesCall(SidesDropdownMethod(arg))
          ELSE UNCHANGED << log, fails >>
  /\ pos' = 3
  /\ UNCHANGED << fn, arg, attempt, outcome >>
  /\ UNCHANGED imgVars
  /\ UNCHANGED mainVars

\* the wait for the upload page; a timeout is swallowed; return True
SidesWaitUpload ==
  /\ fn = "_select_sides"
  /\ outcome = Running
  /\ pos = 3
  /\ log' = Append(log, << pos, "wait_for_url_contains" >>)
  /\ \E o \in {"ok", "TimeoutException"} :
       fails' = IF o = "ok" THEN fails
                ELSE Append(fails, << pos, "wait_for_url_contains" >>)
  /\ outcome' = Returned("True")
  /\ UNCHANGED << fn, arg, attempt, pos >>
  /\ UNCHANGED imgVars
  /\ UNCHANGED mainVars

\* ------------------------------------------------------------ SpecTools
Calls ==
  { << "login", 0 >> }
  \cup { << "click_button", n >> : n \in 0..MaxClickRetries }
  \cup { << "step", k >> : k \in WaitSteps }
  \cup { << "wait", k >> : k \in 1..Len(WaitPrimitives) }
  \cup { << "select_dropdown_option", 0 >> }
  \cup { << "fill_general_settings", k >> : k \in {0} \cup GeneralDropdowns }
  \cup { << "extract_batch_id_from_url", u >> : u \in Urls }
  \cup { << "_rotate_images", f >> : f \in Folders }
  \cup { << f, d >> : f \in {"rotate_images", "ImageRotationHandler"}, d \in Folders }
  \cup { << "_fill_optional_details", c >> : c \in OptionalConfigs }
  \cup { << "test_login_navigation", e >> : e \in Environments }
  \cup { << "_apply_rotation", [ upright |-> u, orientation |-> o, image |-> StoredAs(u, o) ] >> : u \in Pictures, o \in Orientations }
  \cup { << "_select_sides", c >> : c \in SidesConfigs }

\* the calls that work on an image folder
ImageCalls == {"_rotate_images", "rotate_images", "ImageRotationHandler"}

InitTools ==
  /\ MainParked
  /\ \E c \in Calls : fn = c[1] /\ arg = c[2]
  /\ attempt = 1
  /\ pos = IF fn \in ImageCalls THEN 0 ELSE 1
  /\ log = << >>
  /\ fails = << >>
  /\ outcome = Running
  /\ disk = IF fn \in ImageCalls THEN InitialDisk(arg) ELSE << >>
  /\ stats = << >>
  /\ ready = << >>
  /\ sent = << >>

NextTools ==
  \/ LoginOp
  \/ ClickNoAttempt
  \/ ClickOp
  \/ StepWait
  \/ WaitUntil
  \/ SelectOp
  \/ FillGeneralOp
  \/ ExtractRegex
  \/ ExtractFallback
  \/ RotateEnumerate
  \/ RotateFile
  \/ RotateDone
  \/ StandaloneEnumerate
  \/ StandaloneFile
  \/ StandaloneDone
  \/ HandlerInit
  \/ HandlerEnumerate
  \/ HandlerFile
  \/ HandlerDone
  \/ UploadImages
  \/ OptionalStrategy
  \/ TestLoadCredentials
  \/ TestLoginCall
  \/ TestNavigate
  \/ ApplyRotation
  \/ SidesCardType
  \/ SidesChoice
  \/ SidesWaitUpload

SpecTools == InitTools /\ [][NextTools]_vars

\* C14: LoginHandler.login makes at most MAX_LOGIN_RETRIES attempts; every
\* attempt performs the operations of LoginOps from the first one
\* (driver.get) on, so a completed attempt has filled both fields; a failed
\* attempt (timeout or other exception) is followed by the next attempt;
\* login returns True at the end of the first attempt that completes, and
\* raises after exactly MAX_LOGIN_RETRIES failed attempts.
C14_LoginRetriesRestartFromNavigation ==
  fn = "login" =>
    /\ attempt \in 1..MAX_LOGIN_RETRIES
    /\ \A e \in { log[k] : k \in 1..Len(log) } : e[1] \in 1..MAX_LOGIN_RETRIES
    /\ \A a \in 1..attempt : IsPrefix(OpsOf(a), LoginOps)
    /\ (outcome = Running => Len(fails) = attempt - 1)
    /\ (outcome[1] = "returned" =>
          /\ outcome = Returned("True")
          /\ OpsOf(attempt) = LoginOps
          /\ Len(fails) = attempt - 1)
    /\ (outcome[1] = "raised" =>
          /\ Len(fails) = MAX_LOGIN_RETRIES
          /\ attempt = MAX_LOGIN_RETRIES)

\* login gave up after MAX_LOGIN_RETRIES attempts that failed at different
\* operations
C14_Witness ==
  /\ fn = "login"
  /\ outcome[1] = "raised"
  /\ Len(OpsOf(1)) = 2
  /\ Len(OpsOf(2)) = 5
  /\ Len(OpsOf(3)) = 8

\* the click attempts made so far
ClickCount == Len(SelectSeq(log, LAMBDA e : e[2] = "click"))

\* C15: click_button with max_retries = N >= 1 makes at most N attempts;
\* while fewer than N attempts have failed, each with a stale-element or a
\* click-intercepted condition, it goes on, and the attempt that succeeds
\* makes it return True; when it raises one of these two conditions, N
\* attempts have failed and the one raised is the last.
C15_ClickRetriesBounded ==
  (fn = "click_button" /\ arg >= 1) =>
    /\ attempt \in 1..arg
    /\ ClickCount <= arg
    /\ Len(fails) <= arg
    /\ (outcome = Running =>
          /\ Len(fails) = attempt - 1
          /\ \A k \in 1..Len(fails) : fails[k] \in Retriable)
    /\ (outcome # Running /\ Len(fails) = attempt - 1 =>
          outcome = Returned("True") /\ OpsOf(attempt) = ClickOps)
    /\ (outcome[1] = "returned" =>
          /\ outcome = Returned("True")
          /\ Len(fails) < arg
          /\ \A k \in 1..Len(fails) : fails[k] \in Retriable)
    /\ (outcome[1] = "raised" /\ outcome[2] \in Retriable =>
          /\ Len(fails) = arg
          /\ outcome[2] = fails[arg])

\* max_retries = 3: a stale element, then an intercepted click, then success
C15_Witness ==
  /\ fn = "click_button"
  /\ arg = 3
  /\ fails = << "StaleElementReferenceException",
                "ElementClickInterceptedException" >>
  /\ outcome = Returned("True")

\* C16: in click_button an exception that is neither stale-element nor
\* click-intercepted ends the call at once: it is the last failure, it is
\* what click_button raises, and no operation of a later attempt follows.
C16_OtherExceptionsPropagateAtOnce ==
  fn = "click_button" =>
    \A k \in 1..Len(fails) :
      fails[k] \notin Retriable =>
        /\ k = Len(fails)
        /\ outcome = Raised(fails[k])
        /\ attempt = k
        /\ log[Len(log)][1] = k

\* a WebDriverException in the second of three attempts
C16_Witness ==
  /\ fn = "click_button"
  /\ arg = 3
  /\ fails = << "StaleElementReferenceException", "WebDriverException" >>
  /\ outcome = Raised("WebDriverException")

\* C17, as claimed: when click_button raises the timeout of its clickable
\* wait, it has used all its attempts.
C17_TimeoutRetriedInClick ==
  (fn = "click_button" /\ outcome = Raised("TimeoutException")) =>
    attempt = arg

\* C17, amended: a timeout of the clickable wait inside click_button is not
\* retried: the wait that timed out is the last operation of the call and
\* the TimeoutException is raised to the caller, attempts left or not.
C17_TimeoutInClickNotRetried ==
  fn = "click_button" =>
    \A k \in 1..Len(fails) :
      fails[k] = "TimeoutException" =>
        /\ outcome = Raised("TimeoutException")
        /\ log[Len(log)] = << k, "wait_clickable" >>
        /\ Len(fails) = k

\* the wait of the first of three attempts times out
C17_Witness ==
  /\ fn = "click_button"
  /\ arg = 3
  /\ attempt = 1
  /\ outcome = Raised("TimeoutException")

\* a wait of the step under examination has timed out
StepWaitTimedOut == fn = "step" /\ fails = << "TimeoutException" >>

\* C18, as claimed: a step in which a wait of the Wait Layer timed out is
\* never handed to run() as successful, so the pipeline does not go on.
C18_TimeoutEndsAnyStep ==
  StepWaitTimedOut => StepVerdict(StepResult(outcome)) = "False"

\* C18, amended: in every step but Fill Optional Details and Select Sides a
\* timed-out wait ends the step and the job: Navigate, Fill General
\* Settings, Continue General, Create Batch Submit and Magic Scan let the
\* TimeoutException out, Upload Images and Upload Continue return False;
\* Fill Optional Details and Select Sides return True all the same.
C18_TimeoutEndsStepUnlessSuppressed ==
  StepWaitTimedOut =>
    LET s == StepOrder[arg] IN
    /\ StepResult(outcome) \in StepOutcomes(s)
    /\ IF s \in {"Fill Optional Details", "Select Sides"}
       THEN outcome = Returned("True")
       ELSE /\ StepVerdict(StepResult(outcome)) = "False"
            /\ outcome \in {Raised("TimeoutException"), Returned("False")}
            /\ (outcome = Returned("False")
                  <=> s \in {"Upload Images", "Upload Continue"})

\* the URL wait of Continue General has timed out and the exception is out
C18_Witness ==
  /\ StepWaitTimedOut
  /\ StepOrder[arg] = "Continue General"
  /\ outcome = Raised("TimeoutException")

\* C19, as claimed: every wait primitive ends after one wait, with the
\* element or True, or with a TimeoutException; never with a failure value.
C19_WaitsReturnOrRaise ==
  (fn = "wait" /\ outcome # Running) =>
    /\ Len(log) = 1
    /\ outcome \in {Returned("element"), Returned("True"),
                    Raised("TimeoutException")}

\* C19, amended: the visible, clickable, url-contains and url-matches waits
\* end after one wait with the element or True, or raise TimeoutException;
\* the stale wait ends after one wait with True, or with False when it
\* timed out; none of the five waits again.
C19_WaitsReturnOrRaiseButStale ==
  (fn = "wait" /\ outcome # Running) =>
    LET p == WaitPrimitives[arg] IN
    /\ Len(log) = 1
    /\ (fails = << >> => outcome = WaitOnSuccess(p))
    /\ (fails # << >> =>
          /\ fails = << "TimeoutException" >>
          /\ outcome = IF p = "wait_for_element_stale"
                       THEN Returned("False")
                       ELSE Raised("TimeoutException"))

\* the stale wait has timed out and handed back False
C19_Witness ==
  /\ fn = "wait"
  /\ WaitPrimitives[arg] = "wait_for_element_stale"
  /\ fails = << "TimeoutException" >>
  /\ outcome = Returned("False")

\* C20: select_dropdown_option selects by visible text first and by value
\* only after the text match raised NoSuchElementException; it returns True
\* exactly when the last selection made succeeded and raises otherwise; a
\* failed wait or a failed Select() raises with no selection tried.
C20_ValueFallbackOnlyWhenNoTextMatch ==
  fn = "select_dropdown_option" =>
    LET ops == OpsOf(1) IN
    /\ IsPrefix(ops, SelectOps)
    /\ (Len(ops) = 4 =>
          /\ Len(fails) >= 1
          /\ fails[1] = "NoSuchElementException")
    /\ (outcome[1] = "returned" =>
          /\ outcome = Returned("True")
          /\ Len(ops) \in {3, 4}
          /\ Len(fails) = Len(ops) - 3)
    /\ (outcome[1] = "raised" =>
          /\ fails # << >>
          /\ outcome[2] = fails[Len(fails)]
          /\ (Len(ops) = 4 => Len(fails) = 2)
          /\ (Len(ops) < 4 =>
                fails \notin { << "NoSuchElementException" >> }))
    /\ (outcome = Running =>
          \/ fails = << >> /\ Len(ops) < 3
          \/ fails = << "NoSuchElementException" >> /\ Len(ops) = 3)

\* no option has the text, the option with the value is selected
C20_Witness ==
  /\ fn = "select_dropdown_option"
  /\ fails = << "NoSuchElementException" >>
  /\ OpsOf(1) = SelectOps
  /\ outcome = Returned("True")

\* C21: when a general-settings dropdown is marked as the custom variant and
\* the remote UI refuses nothing, the Fill General Settings step ends
\* successfully, the option chosen by the click-based helper.
C21_CustomDropdownSelectedByClicks ==
  (/\ fn = "fill_general_settings"
   /\ arg \in GeneralDropdowns
   /\ outcome # Running
   /\ \A k \in 1..Len(fails) : fails[k] \notin GeneralOpOutcomes) =>
    /\ outcome = Returned("True")
    /\ \E j \in 1..Len(log) : log[j][2] = "select_custom_dropdown_option"

\* the lookup met an element holding a value or a text
NonEmpty(f) == f[1] = "found" /\ (f[2] # "" \/ f[3] # "")

\* C22: extract_batch_id_from_url consults the URL first; when the URL holds
\* /batches/<id>/add it returns that segment and consults no selector;
\* otherwise it consults the fallback selectors in their declared order and
\* returns the value, else the text, of the first element that holds one;
\* when none does it returns None and the Extract Batch ID step returns
\* False, which ends the job.
C22_RegexFirstThenSelectorsInOrder ==
  fn = "extract_batch_id_from_url" =>
    LET matches == \E i \in 1..Len(arg) : MatchAt(arg, i) IN
    /\ (log # << >> => log[1][2] = "re.search")
    /\ \A j \in 2..Len(log) : log[j][2] = BATCH_ID_FALLBACK_SELECTORS[j - 1]
    /\ Len(fails) = IF log = << >> THEN 0 ELSE Len(log) - 1
    /\ (matches =>
          /\ Len(log) <= 1
          /\ (outcome # Running =>
                /\ outcome[1] = "returned"
                /\ \E i \in 1..Len(arg) :
                     MatchAt(arg, i) /\ outcome[2] = arg[i + 1]))
    /\ (~matches =>
          /\ \A k \in 1..(Len(fails) - 1) : ~NonEmpty(fails[k])
          /\ (outcome = Running => \A k \in 1..Len(fails) : ~NonEmpty(fails[k]))
          /\ (outcome[1] = "returned" /\ outcome[2] # "None" =>
                LET f == fails[Len(fails)] IN
                /\ NonEmpty(f)
                /\ outcome[2] = IF f[2] # "" THEN f[2] ELSE f[3])
          /\ (outcome[1] = "returned" /\ outcome[2] = "None" =>
                /\ Len(fails) = Len(BATCH_ID_FALLBACK_SELECTORS)
                /\ \A k \in 1..Len(fails) : ~NonEmpty(fails[k])
                /\ StepVerdict(ExtractBatchIdStep(outcome)) = "False")
          /\ (outcome[1] = "raised" =>
                fails[Len(fails)] = Broken))

\* /batches//add does not match; the first selector finds nothing, the
\* second an element with a value and a text: the value is returned
C22_Witness ==
  /\ fn = "extract_batch_id_from_url"
  /\ arg = << "batches", "", "add" >>
  /\ fails = << Absent, Found("value2", "text2") >>
  /\ outcome = Returned("value2")

\* C23: a job that does not skip login, whose Rotate Images succeeded and in
\* which no step other than Login was refused by the remote UI, runs all
\* thirteen steps, Login among them, and returns True.
C23_LoginJobRunsAllThirteenSteps ==
  (/\ pc = "record"
   /\ workflow.exists
   /\ ~workflow.skip_login
   /\ ~workflow.interrupted
   /\ \E k \in 1..Len(workflow.succeeded) :
        workflow.succeeded[k] = "Rotate Images"
   /\ \A k \in 1..Len(workflow.executed) :
        workflow.executed[k] # "Login" =>
          \E j \in 1..Len(workflow.succeeded) :
            workflow.succeeded[j] = workflow.executed[k]) =>
    /\ ret = "True"
    /\ workflow.executed = StepOrder
    /\ workflow.succeeded = StepOrder

\* the files the inline rotation has been through
Handled == { log[j][1] : j \in 1..Len(log) }

HasFront(k) == Contains(Lower(FileNames[k]), << "f","r","o","n","t" >>)
HasBack(k) == Contains(Lower(FileNames[k]), << "b","a","c","k" >>)

\* the orientation the rotation chose for file k (0: none)
Assigned(k) == LET j == CHOOSE j \in 1..Len(log) : log[j][1] = k IN log[j][2]

StandalonePipeline == fn \in {"rotate_images", "ImageRotationHandler"}

\* the folder holds no file the called pipeline supports
NoImageFiles ==
  ImageFiles(arg, IF fn = "rotate_images" THEN InlineFormats
                  ELSE IMAGE_SUPPORTED_FORMATS) = << >>

\* the result in hand is well formed and all its counts are zero
ZeroResult ==
  /\ outcome = Returned("result")
  /\ IF fn = "rotate_images"
     THEN stats = ZeroTotals
     ELSE /\ stats.summary = [total |-> 0, success |-> 0, failed |-> 0,
                              skipped |-> 0]
          /\ stats.failed = << >>
          /\ stats.skipped = << >>
          /\ ready = << >>

C26_NoImagesIsNotAnError ==
  (/\ fn = "_rotate_images"
   /\ arg.exists
   /\ ImageFiles(arg, InlineFormats) = << >>
   /\ outcome # Running) =>
    /\ fails = << >>
    /\ outcome = Returned("True")

\* the turns of the loop that ended in a processing error
Errored == { j \in 1..Len(log) : log[j][3] = "error" }

\* C27: in the inline rotation and in the stand-alone rotate_images every
\* processing error adds exactly one to the error count, the files are gone
\* through one after the other whatever failed before, none left out, and
\* the call ends successfully (the step returns True) however many files
\* failed and wherever they stand.
C27_FileErrorsCountedNeverAbort ==
  (fn \in {"_rotate_images", "rotate_images"} /\ pos >= 1) =>
    LET files == ImageFiles(arg, InlineFormats) IN
    /\ stats.errors = Cardinality(Errored)
    /\ Len(log) = IF outcome = Running THEN pos - 1 ELSE Len(files)
    /\ \A j \in 1..Len(log) : log[j][1] = files[j]
    /\ stats.front + stats.back + stats.skipped = Len(log)
    /\ \A j \in Errored : disk[SrcPath(log[j][1])] = Original
    /\ (outcome # Running /\ attempt = 1 =>
          outcome = IF fn = "_rotate_images" THEN Returned("True")
                    ELSE Returned("result"))

\* front.jpg and FRONT.PNG fail, back.jpeg between them is rewritten, and
\* the step returns True
C27_Witness ==
  /\ fn = "_rotate_images"
  /\ arg.entries = << 1, 3, 2 >>
  /\ stats = [front |-> 2, back |-> 1, skipped |-> 0, errors |-> 2]
  /\ disk[SrcPath(3)] = WithExif(6)
  /\ attempt = 1
  /\ outcome = Returned("True")

\* the enumerated image files of the folder, as paths
EnumeratedPaths ==
  { SrcPath(arg.entries[i]) :
      i \in { i \in 1..Len(arg.entries) :
                /\ arg.entries[i] \notin Directories
                /\ Lower(Suffix(FileNames[arg.entries[i]])) \in InlineFormats } }

InSeq(x, q) == \E i \in 1..Len(q) : q[i] = x

Tried(f, m) == \E j \in 1..Len(log) : log[j] = << f, m >>
RaisedOn(f, m) == \E j \in 1..Len(fails) : fails[j] = << f, m >>

\* C30: once Fill Optional Details is over, every field on which the first
\* strategy and the native select have both raised has had the click
\* strategy tried on it.
C30_ClickTriedAfterTwoFailures ==
  (fn = "_fill_optional_details" /\ outcome # Running) =>
    \A f \in 1..Len(arg) :
      (RaisedOn(f, FirstStrategy(arg[f]))
         /\ RaisedOn(f, "select_dropdown_option")) =>
        Tried(f, "click_button")

\* C31: the configuration a job works with changes only by the one load of
\* the document, which happens before any job has started (no outcome is
\* recorded, the first folder is at hand) and yields the document as it is
\* on disk; no construction and no step changes it afterwards.
C31_ConfigLoadedOnceNeverMutated ==
  [][ (workflow'.exists /\ workflow'.config # workflow.config) =>
        /\ idx = 1
        /\ results = << >>
        /\ workflow'.config = ConfigDocument ]_vars

\* C32: no text printed on any path of a login (an attempt that succeeds,
\* one that is retried, the failure after the last attempt) or by the
\* script that drives it holds the account identifier or the secret.
C32_CredentialsNeverPrinted ==
  /\ fn = "login" =>
       LoginConsole \cap { LoginArgs.username, LoginArgs.password } = {}
  /\ fn = "test_login_navigation" =>
       \A j \in 1..Len(log) :
         log[j] \cap { UserValue, SecretValue } = {}

\* C33: _apply_rotation returns, for an image stored under orientation code
\* 2 to 8, the upright picture (3 by a half turn, 6 by a quarter turn
\* clockwise, 8 by a quarter turn counter-clockwise, 2 and 4 by the
\* horizontal and the vertical flip, 5 and 7 by the transpose and the
\* transverse); the seven transforms are seven different ones, which give
\* seven different images on a picture of two rows and columns or more; and
\* for code 1 the image comes back as it was handed in.
C33_ApplyRotationUprights ==
  (fn = "_apply_rotation" /\ outcome # Running) =>
    LET o == arg.orientation  img == arg.image  out == disk["returned"] IN
    /\ out = arg.upright
    /\ o = 1 => out = img /\ log[1][2] = "None"
    /\ o \in 2..8 =>
         /\ log[1][2] =
              << "FLIP_LEFT_RIGHT", "ROTATE_180", "FLIP_TOP_BOTTOM",
                 "TRANSPOSE", "ROTATE_270", "TRANSVERSE", "ROTATE_90" >>[o - 1]
         /\ \A o2 \in (2..8) \ {o} :
              /\ OrientationTransforms(o2) # OrientationTransforms(o)
              /\ (Height(img) >= 2 /\ Width(img) >= 2) =>
                   ApplyRotationTo(img, o2) # out

\* a picture of two rows and three columns stored under code 6 (its first
\* row is the right-hand side of the picture) came back upright
C33_Witness ==
  /\ fn = "_apply_rotation"
  /\ arg.orientation = 6
  /\ arg.image = << << 3, 6 >>, << 2, 5 >>, << 1, 4 >> >>
  /\ outcome # Running
  /\ disk["returned"] = << << 1, 2, 3 >>, << 4, 5, 6 >> >>

\* C34: when Fill Optional Details is over it has returned True and every
\* configured optional field has been attempted, whatever strategies raised
\* on the fields before it.
C34_EveryOptionalFieldAttempted ==
  (fn = "_fill_optional_details" /\ outcome # Running) =>
    /\ outcome = Returned("True")
    /\ \A f \in 1..Len(arg) : \E j \in 1..Len(log) : log[j][1] = f

\* C35: when Select Sides is over with a tile selector configured, the click
\* on the tile having raised, and a sides dropdown configured with a value,
\* the dropdown has been tried after the tile.
C35_DropdownTriedAfterTileFailure ==
  (/\ fn = "_select_sides"
   /\ outcome # Running
   /\ arg.tile /\ arg.select /\ arg.value
   /\ \E j \in 1..Len(fails) : fails[j] = << 2, "click_button" >>) =>
    \E j \in 1..Len(log) : log[j] = << 2, SidesDropdownMethod(arg) >>

\* the files gone through so far whose name satisfies role
CountOf(role(_)) == Cardinality({ j \in 1..Len(log) : role(log[j][1]) })

IsFront(k) == HasFront(k)
IsBack(k) == HasBack(k) /\ ~HasFront(k)
IsNeither(k) == ~HasFront(k) /\ ~HasBack(k)

\* C36: in the inline rotation and in the stand-alone rotate_images, after
\* any number of files front counts the files gone through whose name holds
\* "front" (a name with both words among them), back those with "back" and
\* no "front", skipped the rest, so that the three add up to the files gone
\* through and, at the end, to the files enumerated; errors counts the files
\* whose write failed, each of them also counted as front or back, so that
\* errors never exceeds front + back.
C36_CountersPartitionTheFiles ==
  (fn \in {"_rotate_images", "rotate_images"} /\ pos >= 1) =>
    /\ stats.front = CountOf(IsFront)
    /\ stats.back = CountOf(IsBack)
    /\ stats.skipped = CountOf(IsNeither)
    /\ stats.front + stats.back + stats.skipped = Len(log)
    /\ stats.errors = Cardinality(Errored)
    /\ \A j \in Errored : IsFront(log[j][1]) \/ IsBack(log[j][1])
    /\ stats.errors <= stats.front + stats.back
    /\ (outcome # Running \/ pos > Len(ImageFiles(arg, InlineFormats))) =>
         /\ Len(log) = Len(ImageFiles(arg, InlineFormats))
         /\ fn = "rotate_images" => stats.total = Len(log)

\* a folder with a front, a file named for both sides and a file for
\* neither: the first two failed to be written
C36_Witness ==
  /\ fn = "rotate_images"
  /\ arg.entries = << 1, 5, 7 >>
  /\ outcome = Returned("result")
  /\ stats = [total |-> 3, front |-> 2, back |-> 0, skipped |-> 1,
              errors |-> 2]

\* C37: a browser session is quit only by the run of the last folder, once
\* that run is through with its steps: while a run is setting up or
\* executing steps its session has not been quit, and as long as a folder
\* is still to come (whether the jobs so far succeeded, failed or were
\* interrupted) no session has been quit.
C37_NoStepAfterRelease ==
  /\ pc \in {"setup", "steps", "finish", "finally"} =>
       workflow.driver \notin quitted
  /\ quitted # {} =>
       /\ idx = total_folders
       /\ pc \in {"record", "summary", "done"}
       /\ quitted = {workflow.driver}

\* three folders: the first job failed, the browser it created went on to
\* the other two and was quit at the end of the third
C37_Witness ==
  /\ total_folders = 3
  /\ pc = "done"
  /\ Len(results) = 3
  /\ results[1].status = "failed"
  /\ quitted = {1}
  /\ nsessions = 1

====
